---- MODULE Spec2Model ----
(***************************************************************************)
(* A model of check_broken_links.py: the concurrent breadth-first crawl    *)
(* (crawl_concurrent, fetch_and_extract), the shared crawl state guarded   *)
(* by `lock`, the realtime CSV export guarded by `realtime_export_lock`,   *)
(* and the final export of main().                                         *)
(*                                                                         *)
(* Strings that are URLs are modelled by their urlsplit components         *)
(* (scheme, netloc, path segments); a plain word such as "root" is the     *)
(* URL string with empty scheme and netloc and that one path segment.      *)
(***************************************************************************)
EXTENDS Integers, Sequences, FiniteSets, TLC

\* ------------------------------------------------------------------ bounds
\* Longest run of "/" and " " characters that ends a link given to
\* normalize_url in SpecNorm.
MaxTail == 2
\* --depth ranges over 0..MaxDepthArg, --threads over 1..MaxThreadsArg.
MaxDepthArg == 2
MaxThreadsArg == 2
\* Number of concurrent direct callers of fetch_and_extract in SpecGate.
GateCallers == 2

\* ------------------------------------------------------------- URL strings
\* The characters a modelled string may end in after its last path segment.
Slash == "/"
Space == " "

\* n slashes in a row.
Slashes(n) == [k \in 1..n |-> Slash]

\* A URL string: path is the list of path segments, tail the run of "/" and
\* " " characters that follows the last segment, frag the text after "#".
HrefTail(scheme, netloc, path, tail, frag) ==
    [scheme |-> scheme, netloc |-> netloc, path |-> path,
     tail |-> tail, frag |-> frag]

\* A URL string that ends in `slashes` slashes before its fragment.
Href(scheme, netloc, path, slashes, frag) ==
    HrefTail(scheme, netloc, path, Slashes(slashes), frag)

\* A URL string with neither fragment nor trailing slash.
Url(scheme, netloc, path) == Href(scheme, netloc, path, 0, "")

\* A string without scheme and authority, e.g. "root", "URL", "404".
Str(s) == Url("", "", <<s>>)

\* A site-relative link "/seg1/seg2".
Rel(path) == Href("", "", path, 0, "")

\* urlsplit raises ValueError("Invalid IPv6 URL") on a netloc with an
\* unmatched "[", for example href="http://[".
BadNetloc == "["
UrlsplitRaises(link) == link.netloc = BadNetloc

\* What urlsplit reads as the path of a link without scheme and netloc: a
\* link without path segment that starts with "//" has an empty authority,
\* and its path is what follows the two slashes.
PathTail(link) ==
    IF link.path = <<>> /\ Len(link.tail) >= 2
          /\ link.tail[1] = Slash /\ link.tail[2] = Slash
    THEN SubSeq(link.tail, 3, Len(link.tail))
    ELSE link.tail

\* urllib.parse.urljoin(base, link), for links whose path is empty or
\* absolute and which, when they hold no path segment, hold no space.
\* Spaces inside or at the end of the link are kept. A link with neither
\* netloc nor path ("", "#x", "//", "//#x") gives the base with the link's
\* fragment.
urljoin(base, link) ==
    IF link.scheme # "" /\ link.scheme # base.scheme
    THEN link
    ELSE IF link.netloc # ""
    THEN HrefTail(base.scheme, link.netloc, link.path, link.tail, link.frag)
    ELSE IF link.path = <<>> /\ PathTail(link) = <<>>
    THEN [base EXCEPT !.frag = link.frag]
    ELSE HrefTail(base.scheme, base.netloc, link.path, PathTail(link), link.frag)

\* urllib.parse.urldefrag(url)[0]
urldefrag(url) == [url EXCEPT !.frag = ""]

\* The characters of s without its trailing run of the character c.
RECURSIVE RStripChar(_, _)
RStripChar(s, c) ==
    IF s # <<>> /\ s[Len(s)] = c THEN RStripChar(SubSeq(s, 1, Len(s) - 1), c)
    ELSE s

\* str.strip() on a string without fragment: the trailing whitespace goes
\* (no modelled string starts with whitespace).
strip(url) == [url EXCEPT !.tail = RStripChar(@, Space)]

\* str.rstrip("/"): every trailing slash goes.
rstrip_slash(url) == [url EXCEPT !.tail = RStripChar(@, Slash)]

\* normalize_url(base, link): join, drop the fragment, strip, rstrip("/").
normalize_url(base, link) == rstrip_slash(strip(urldefrag(urljoin(base, link))))

\* Mutant: a scope filter that lets every link through.
is_internalAlways(base_url, url) == TRUE

\* is_internal(base_url, url): equal netloc.
is_internal(base_url, url) == url.netloc = base_url.netloc

\* href.startswith("mailto:") or href.startswith("tel:")
IsMailOrTel(url) == url.scheme = "mailto" \/ url.scheme = "tel"

\* ------------------------------------------------------------------ sites
Host == "example.com"
P(path) == Url("https", Host, path)
\* The --url argument, "https://example.com/".
BaseArg == Href("https", Host, <<>>, 1, "")

\* What requests.get(url, timeout=10) gives for a page of a site:
\* a response (status, links of the body) or a RequestException (text).
Ok(status, links) == [exc |-> FALSE, status |-> status, text |-> "", links |-> links]
Fail(text) == [exc |-> TRUE, status |-> 0, text |-> text, links |-> <<>>]

\* The end-to-end scenario: / links to /a (200) and /b (404); /a links to
\* /c (200) and to other.com/y.
SiteExample ==
    ( P(<<>>)    :> Ok(200, <<Rel(<<"a">>), Rel(<<"b">>)>>) ) @@
    ( P(<<"a">>) :> Ok(200, <<Rel(<<"c">>), Href("https", "other.com", <<"y">>, 0, "")>>) ) @@
    ( P(<<"b">>) :> Ok(404, <<>>) ) @@
    ( P(<<"c">>) :> Ok(200, <<>>) )

\* Duplicate links (trailing slash, fragment), a link back to the base,
\* mailto: and tel: links, a cycle, a 503 page that itself holds a link, and
\* a page whose fetch times out.
SiteMixed ==
    ( P(<<>>)    :> Ok(200, <<Href("", "", <<"a">>, 1, ""), Href("", "", <<"a">>, 0, "top"),
                              Href("mailto", "", <<"test@example.com">>, 0, ""),
                              Rel(<<"b">>), Href("", "", <<>>, 1, "")>>) ) @@
    ( P(<<"a">>) :> Ok(200, <<Rel(<<"b">>), Rel(<<"c">>),
                              Href("tel", "", <<"+123">>, 0, ""), Rel(<<"d">>)>>) ) @@
    ( P(<<"b">>) :> Ok(503, <<Rel(<<"e">>)>>) ) @@
    ( P(<<"c">>) :> Fail("ConnectTimeout") ) @@
    ( P(<<"d">>) :> Ok(400, <<>>) ) @@
    ( P(<<"e">>) :> Ok(200, <<>>) )

\* A wave of three pages of which two are broken (403, 500); the third holds
\* the href "http://[" between two good links; /d links to a page the server
\* does not have.
SiteBadHref ==
    ( P(<<>>)    :> Ok(200, <<Rel(<<"a">>), Rel(<<"b">>), Rel(<<"c">>)>>) ) @@
    ( P(<<"a">>) :> Ok(403, <<>>) ) @@
    ( P(<<"b">>) :> Ok(500, <<>>) ) @@
    ( P(<<"c">>) :> Ok(200, <<Rel(<<"d">>), Href("http", BadNetloc, <<>>, 0, ""),
                              Rel(<<"e">>)>>) ) @@
    ( P(<<"d">>) :> Ok(200, <<Rel(<<"missing">>)>>) )

\* Two pages of one wave link to the same new pages (/c, /d), a duplicate
\* link, a link to the same host under another scheme, and a cycle.
SiteDiamond ==
    ( P(<<>>)    :> Ok(200, <<Rel(<<"a">>), Rel(<<"b">>), Rel(<<"a">>)>>) ) @@
    ( P(<<"a">>) :> Ok(200, <<Rel(<<"c">>), Href("", "", <<"d">>, 0, "x")>>) ) @@
    ( P(<<"b">>) :> Ok(200, <<Href("", "", <<"c">>, 1, ""), Rel(<<"d">>),
                              Href("ftp", Host, <<"x">>, 0, "")>>) ) @@
    ( P(<<"c">>) :> Ok(500, <<>>) ) @@
    ( P(<<"d">>) :> Ok(200, <<Href("", "", <<>>, 1, ""), Rel(<<"a">>)>>) )

Sites == <<SiteExample, SiteMixed, SiteBadHref, SiteDiamond>>

\* requests.get: an unsupported scheme raises InvalidSchema (a
\* RequestException); a page the server does not have is a 404.
Response(site, url) ==
    IF url.scheme \notin {"http", "https"} THEN Fail("InvalidSchema")
    ELSE IF url \in DOMAIN site THEN site[url]
    ELSE Ok(404, <<>>)

\* ------------------------------------------------------------------ state
VARIABLES
    args,        \* parsed command line: [site, depth, threads]
    sched,       \* where the main thread is
    queue,       \* crawl_concurrent's deque of (url, depth, source)
    futures,     \* the tasks submitted in the current wave, in submit order
    visited,     \* global set
    discovered,  \* global set
    broken,      \* global list of (target_url, error, source_url)
    stats,       \* global defaultdict(int), as a function on the keys it holds
    lock,        \* tasks inside `with lock`
    realtime_export_lock,   \* tasks inside `with realtime_export_lock`
    rt_open,     \* realtime_export_file is set
    rt_buf,      \* rows written to realtime_export_file and not flushed
    rt_disk,     \* rows of the realtime file that were flushed
    final_file,  \* rows of the --export file
    fetched,     \* history: number of requests.get calls per URL
    enqueued,    \* history: every frontier entry ever created
    wave,        \* history: number of completed turns of the outer `while queue`
    norm         \* a call of normalize_url on its own (SpecNorm)

vars == <<args, sched, queue, futures, visited, discovered, broken, stats, lock,
          realtime_export_lock, rt_open, rt_buf, rt_disk, final_file, fetched,
          enqueued, wave, norm>>

shared == <<visited, discovered, broken, stats>>
files == <<rt_open, rt_buf, rt_disk, final_file>>
locks == <<lock, realtime_export_lock>>
mainvars == <<args, sched, queue>>
aux == <<wave, norm>>

\* ---------------------------------------------------------------- helpers
\* A defaultdict(int) read and its "+= 1".
Count(d, k) == IF k \in DOMAIN d THEN d[k] ELSE 0
Inc(d, k) == [x \in DOMAIN d \cup {k} |-> IF x = k THEN Count(d, k) + 1 ELSE d[x]]

\* Reading d[k] on a defaultdict(int) stores 0 under a key it does not hold.
Touch(d, k) == IF k \in DOMAIN d THEN d ELSE d @@ (k :> 0)

\* Keys of stats and the error field of a broken tuple: an int or a str.
IntKey(n) == <<"int", n>>
StrKey(s) == <<"str", s>>
IsInt(e) == e[1] = "int"

\* str(n) for n >= 0, as csv.writer writes an int field.
Digit == <<"0", "1", "2", "3", "4", "5", "6", "7", "8", "9">>
RECURSIVE IntText(_)
IntText(n) == IF n < 10 THEN Digit[n + 1]
              ELSE IntText(n \div 10) \o Digit[(n % 10) + 1]

\* One CSV record, writer.writerow([error, target_url, source_url]).
Row(error, target_url, source_url) == <<Str(error), target_url, source_url>>
Header == Row("Error", Str("URL"), Str("Source"))

\* The main thread (scheduler and progress display) as a holder of a lock;
\* worker tasks are 1, 2, ...
MainThread == 0

\* Mutant: a lock whose acquire never blocks.
AcquirableAlways(holders) == TRUE

\* threading.Lock: acquire blocks while the lock is held.
Acquirable(holders) == holders = {}

\* build_table() reads stats[200], stats[400], stats[404], stats[500] and
\* stats['error'] (and the sizes of discovered and visited) without the lock.
build_table(d) ==
    Touch(Touch(Touch(Touch(Touch(d, IntKey(200)), IntKey(400)), IntKey(404)),
                IntKey(500)), StrKey("error"))

\* base_url = normalize_url(args.url, "")
base_url == normalize_url(BaseArg, Href("", "", <<>>, 0, ""))
Root == Str("root")

Site == Sites[args.site]

NoResponse == Ok(0, <<>>)
NewTask(entry) ==
    [url |-> entry[1], depth |-> entry[2], source |-> entry[3], pc |-> "pending",
     resp |-> NoResponse, i |-> 1, result |-> <<>>, raised |-> FALSE,
     collected |-> FALSE]

Tasks == DOMAIN futures
Running == {t \in Tasks : futures[t].pc \notin {"pending", "done"}}

\* ------------------------------------------------- fetch_and_extract(t)
\* Mutant: a pool that starts a worker thread for every submitted work item.
StartUnbounded(t) ==
    /\ futures[t].pc = "pending"
    /\ \A u \in Tasks : u < t => futures[u].pc # "pending"
    /\ futures' = [futures EXCEPT ![t].pc = "gate"]
    /\ UNCHANGED <<mainvars, shared, files, locks, fetched, enqueued, aux>>

\* A worker thread of the pool takes the oldest submitted work item.
Start(t) ==
    /\ futures[t].pc = "pending"
    /\ \A u \in Tasks : u < t => futures[u].pc # "pending"
    /\ Cardinality(Running) < args.threads
    /\ futures' = [futures EXCEPT ![t].pc = "gate"]
    /\ UNCHANGED <<mainvars, shared, files, locks, fetched, enqueued, aux>>

\* Mutant: the depth test written `depth >= max_depth`.
GateCheckOffByOne(t) ==
    /\ futures[t].pc = "gate"
    /\ Acquirable(lock)
    /\ IF futures[t].url \in visited \/ futures[t].depth >= args.depth
       THEN /\ futures' = [futures EXCEPT ![t].pc = "done"]
            /\ lock' = lock \ {t}
       ELSE /\ futures' = [futures EXCEPT ![t].pc = "gate_add"]
            /\ lock' = lock \cup {t}
    /\ UNCHANGED <<mainvars, shared, files, realtime_export_lock, fetched, enqueued, aux>>

\* Mutant: the gate without the depth test.
GateCheckNoDepth(t) ==
    /\ futures[t].pc = "gate"
    /\ Acquirable(lock)
    /\ IF futures[t].url \in visited
       THEN /\ futures' = [futures EXCEPT ![t].pc = "done"]
            /\ lock' = lock \ {t}
       ELSE /\ futures' = [futures EXCEPT ![t].pc = "gate_add"]
            /\ lock' = lock \cup {t}
    /\ UNCHANGED <<mainvars, shared, files, realtime_export_lock, fetched, enqueued, aux>>

\* with lock: if url in visited or depth > max_depth: return []
GateCheck(t) ==
    /\ futures[t].pc = "gate"
    /\ Acquirable(lock)
    /\ IF futures[t].url \in visited \/ futures[t].depth > args.depth
       THEN /\ futures' = [futures EXCEPT ![t].pc = "done"]
            /\ lock' = lock \ {t}
       ELSE /\ futures' = [futures EXCEPT ![t].pc = "gate_add"]
            /\ lock' = lock \cup {t}
    /\ UNCHANGED <<mainvars, shared, files, realtime_export_lock, fetched, enqueued, aux>>

\* visited.add(url), and the end of the with block
GateAdd(t) ==
    /\ futures[t].pc = "gate_add"
    /\ visited' = visited \cup {futures[t].url}
    /\ lock' = lock \ {t}
    /\ futures' = [futures EXCEPT ![t].pc = "fetch"]
    /\ UNCHANGED <<mainvars, discovered, broken, stats, files,
                   realtime_export_lock, fetched, enqueued, aux>>

\* response = requests.get(url, timeout=10)
Fetch(t) ==
    /\ futures[t].pc = "fetch"
    /\ LET r == Response(Site, futures[t].url)
       IN  futures' = [futures EXCEPT ![t].resp = r,
                                      ![t].pc = IF r.exc THEN "except" ELSE "stat"]
    /\ fetched' = Inc(fetched, futures[t].url)
    /\ UNCHANGED <<mainvars, shared, files, locks, enqueued, aux>>

\* Mutant: the broken test written `status > 400`.
StatOffByOne(t) ==
    /\ futures[t].pc = "stat"
    /\ Acquirable(lock)
    /\ stats' = Inc(stats, IntKey(futures[t].resp.status))
    /\ lock' = lock \ {t}
    /\ futures' = [futures EXCEPT
                     ![t].pc = IF futures[t].resp.status > 400 THEN "broken" ELSE "links"]
    /\ UNCHANGED <<mainvars, visited, discovered, broken, files,
                   realtime_export_lock, fetched, enqueued, aux>>

\* with lock: stats[status] += 1
Stat(t) ==
    /\ futures[t].pc = "stat"
    /\ Acquirable(lock)
    /\ stats' = Inc(stats, IntKey(futures[t].resp.status))
    /\ lock' = lock \ {t}
    /\ futures' = [futures EXCEPT
                     ![t].pc = IF futures[t].resp.status >= 400 THEN "broken" ELSE "links"]
    /\ UNCHANGED <<mainvars, visited, discovered, broken, files,
                   realtime_export_lock, fetched, enqueued, aux>>

\* if status >= 400: with lock: broken.append((url, status, source_url))
Broken(t) ==
    /\ futures[t].pc = "broken"
    /\ Acquirable(lock)
    /\ lock' = lock \cup {t}
    /\ broken' = Append(broken, <<futures[t].url, IntKey(futures[t].resp.status),
                                  futures[t].source>>)
    /\ futures' = [futures EXCEPT ![t].pc = "export"]
    /\ UNCHANGED <<mainvars, visited, discovered, stats, files,
                   realtime_export_lock, fetched, enqueued, aux>>

\* except requests.RequestException as e: with lock: stats["error"] += 1;
\* broken.append((url, str(e), source_url))
Except(t) ==
    /\ futures[t].pc = "except"
    /\ Acquirable(lock)
    /\ lock' = lock \cup {t}
    /\ stats' = Inc(stats, StrKey("error"))
    /\ broken' = Append(broken, <<futures[t].url, StrKey(futures[t].resp.text),
                                  futures[t].source>>)
    /\ futures' = [futures EXCEPT ![t].pc = "export"]
    /\ UNCHANGED <<mainvars, visited, discovered, files, realtime_export_lock,
                   fetched, enqueued, aux>>

\* Mutant: export_row_realtime called after the `with lock` block has ended.
ExportEnterUnlocked(t) ==
    /\ futures[t].pc = "export"
    /\ IF ~rt_open
       THEN /\ futures' = [futures EXCEPT ![t].pc = "done"]
            /\ UNCHANGED realtime_export_lock
       ELSE /\ Acquirable(realtime_export_lock)
            /\ realtime_export_lock' = realtime_export_lock \cup {t}
            /\ futures' = [futures EXCEPT ![t].pc = "write"]
    /\ lock' = lock \ {t}
    /\ UNCHANGED <<mainvars, shared, files, fetched, enqueued, aux>>

\* export_row_realtime, called inside `with lock`: return when there is no
\* realtime file (which ends the task), else enter `with realtime_export_lock`.
ExportEnter(t) ==
    /\ futures[t].pc = "export"
    /\ IF ~rt_open
       THEN /\ lock' = lock \ {t}
            /\ futures' = [futures EXCEPT ![t].pc = "done"]
            /\ UNCHANGED realtime_export_lock
       ELSE /\ Acquirable(realtime_export_lock)
            /\ realtime_export_lock' = realtime_export_lock \cup {t}
            /\ futures' = [futures EXCEPT ![t].pc = "write"]
            /\ UNCHANGED lock
    /\ UNCHANGED <<mainvars, shared, files, fetched, enqueued, aux>>

\* The error argument of the call: the status, or "ERROR" in the except branch.
ErrorArg(task) == IF task.resp.exc THEN "ERROR" ELSE IntText(task.resp.status)

\* writer.writerow([error, target_url, source_url])
Write(t) ==
    /\ futures[t].pc = "write"
    /\ rt_buf' = Append(rt_buf, Row(ErrorArg(futures[t]), futures[t].url,
                                    futures[t].source))
    /\ futures' = [futures EXCEPT ![t].pc = "flush"]
    /\ UNCHANGED <<mainvars, shared, rt_open, rt_disk, final_file, locks,
                   fetched, enqueued, aux>>

\* Mutant: the task returns from the export without releasing `lock`.
FlushKeepsLock(t) ==
    /\ futures[t].pc = "flush"
    /\ rt_disk' = rt_disk \o rt_buf
    /\ rt_buf' = <<>>
    /\ realtime_export_lock' = realtime_export_lock \ {t}
    /\ futures' = [futures EXCEPT ![t].pc = "done"]
    /\ UNCHANGED <<mainvars, shared, rt_open, final_file, lock, fetched, enqueued, aux>>

\* realtime_export_file.flush(), the end of both with blocks, and the return
Flush(t) ==
    /\ futures[t].pc = "flush"
    /\ rt_disk' = rt_disk \o rt_buf
    /\ rt_buf' = <<>>
    /\ realtime_export_lock' = realtime_export_lock \ {t}
    /\ lock' = lock \ {t}
    /\ futures' = [futures EXCEPT ![t].pc = "done"]
    /\ UNCHANGED <<mainvars, shared, rt_open, final_file, fetched, enqueued, aux>>

\* One turn of `for tag in soup.find_all("a", href=True)`, or its end.
\* normalize_url raises ValueError on a href urlsplit rejects; the except
\* clause names requests.RequestException only, so the task ends by raising.
LinkNeedsLock(task) ==
    /\ task.i <= Len(task.resp.links)
    /\ ~UrlsplitRaises(task.resp.links[task.i])
    /\ LET href == normalize_url(task.url, task.resp.links[task.i])
       IN  ~IsMailOrTel(href) /\ is_internal(base_url, href)

\* Mutant: the entry carries the page's own source_url instead of its url.
LinkParentSource(t) ==
    LET task == futures[t]
        links == task.resp.links
    IN
    /\ task.pc = "links"
    /\ LinkNeedsLock(task) => Acquirable(lock)
    /\ IF task.i > Len(links)
       THEN /\ futures' = [futures EXCEPT ![t].pc = "done"]
            /\ UNCHANGED <<discovered, enqueued>>
       ELSE IF UrlsplitRaises(links[task.i])
       THEN /\ futures' = [futures EXCEPT ![t].pc = "done", ![t].raised = TRUE]
            /\ UNCHANGED <<discovered, enqueued>>
       ELSE LET href == normalize_url(task.url, links[task.i])
                entry == <<href, task.depth + 1, task.source>>
            IN  IF LinkNeedsLock(task) /\ href \notin discovered
                THEN /\ discovered' = discovered \cup {href}
                     /\ enqueued' = enqueued \cup {entry}
                     /\ futures' = [futures EXCEPT
                                      ![t].result = Append(task.result, entry),
                                      ![t].i = task.i + 1]
                ELSE /\ futures' = [futures EXCEPT ![t].i = task.i + 1]
                     /\ UNCHANGED <<discovered, enqueued>>
    /\ lock' = lock \ {t}
    /\ UNCHANGED <<mainvars, visited, broken, stats, files, realtime_export_lock,
                   fetched, aux>>

\* Mutant: `if href not in discovered` and the insertion run as two steps,
\* outside any lock.
LinkRacy(t) ==
    LET task == futures[t]
        links == task.resp.links
    IN
    /\ task.pc \in {"links", "link_add"}
    /\ IF task.pc = "link_add"
       THEN LET href == normalize_url(task.url, links[task.i])
                entry == <<href, task.depth + 1, task.url>>
            IN  /\ discovered' = discovered \cup {href}
                /\ enqueued' = enqueued \cup {entry}
                /\ futures' = [futures EXCEPT
                                 ![t].result = Append(task.result, entry),
                                 ![t].i = task.i + 1, ![t].pc = "links"]
       ELSE IF task.i > Len(links)
       THEN /\ futures' = [futures EXCEPT ![t].pc = "done"]
            /\ UNCHANGED <<discovered, enqueued>>
       ELSE IF UrlsplitRaises(links[task.i])
       THEN /\ futures' = [futures EXCEPT ![t].pc = "done", ![t].raised = TRUE]
            /\ UNCHANGED <<discovered, enqueued>>
       ELSE LET href == normalize_url(task.url, links[task.i])
            IN  /\ futures' = IF LinkNeedsLock(task) /\ href \notin discovered
                              THEN [futures EXCEPT ![t].pc = "link_add"]
                              ELSE [futures EXCEPT ![t].i = task.i + 1]
                /\ UNCHANGED <<discovered, enqueued>>
    /\ UNCHANGED <<mainvars, visited, broken, stats, files, locks, fetched, aux>>

Link(t) ==
    LET task == futures[t]
        links == task.resp.links
    IN
    /\ task.pc = "links"
    /\ LinkNeedsLock(task) => Acquirable(lock)
    /\ IF task.i > Len(links)
       THEN /\ futures' = [futures EXCEPT ![t].pc = "done"]
            /\ UNCHANGED <<discovered, enqueued>>
       ELSE IF UrlsplitRaises(links[task.i])
       THEN /\ futures' = [futures EXCEPT ![t].pc = "done", ![t].raised = TRUE]
            /\ UNCHANGED <<discovered, enqueued>>
       ELSE LET href == normalize_url(task.url, links[task.i])
                entry == <<href, task.depth + 1, task.url>>
            IN  IF LinkNeedsLock(task) /\ href \notin discovered
                THEN /\ discovered' = discovered \cup {href}
                     /\ enqueued' = enqueued \cup {entry}
                     /\ futures' = [futures EXCEPT
                                      ![t].result = Append(task.result, entry),
                                      ![t].i = task.i + 1]
                ELSE /\ futures' = [futures EXCEPT ![t].i = task.i + 1]
                     /\ UNCHANGED <<discovered, enqueued>>
    /\ lock' = lock \ {t}
    /\ UNCHANGED <<mainvars, visited, broken, stats, files, realtime_export_lock,
                   fetched, aux>>

\* ------------------------------------------------------------------ main
\* if args.export_realtime: open the file and write the header (no flush)
OpenRealtime ==
    /\ sched = "main"
    /\ rt_open' = TRUE
    /\ rt_buf' = Append(rt_buf, Header)
    /\ sched' = "crawl"
    /\ UNCHANGED <<args, queue, futures, shared, rt_disk, final_file, locks,
                   fetched, enqueued, aux>>

\* --export-realtime was not given
NoRealtime ==
    /\ sched = "main"
    /\ sched' = "crawl"
    /\ UNCHANGED <<args, queue, futures, shared, files, locks, fetched, enqueued, aux>>

\* Mutant: crawl_concurrent without discovered.add(base_url).
CrawlInitNoDiscover ==
    /\ sched = "crawl"
    /\ queue' = <<<<base_url, 0, Root>>>>
    /\ enqueued' = enqueued \cup {<<base_url, 0, Root>>}
    /\ stats' = build_table(stats)
    /\ sched' = "submit"
    /\ UNCHANGED <<args, futures, visited, discovered, broken, files, locks,
                   fetched, aux>>

\* queue = deque([(base_url, 0, "root")]); discovered.add(base_url);
\* Live(build_table(), ...); ThreadPoolExecutor(max_workers)
CrawlInit ==
    /\ sched = "crawl"
    /\ queue' = <<<<base_url, 0, Root>>>>
    /\ discovered' = discovered \cup {base_url}
    /\ enqueued' = enqueued \cup {<<base_url, 0, Root>>}
    /\ stats' = build_table(stats)
    /\ sched' = "submit"
    /\ UNCHANGED <<args, futures, visited, broken, files, locks, fetched, aux>>

\* Mutant: `if queue:` in place of the inner `while queue:`, one entry is
\* submitted per turn of the outer loop.
SubmitOne ==
    /\ sched = "submit"
    /\ queue # <<>>
    /\ futures' = Append(futures, NewTask(Head(queue)))
    /\ queue' = Tail(queue)
    /\ sched' = "collect"
    /\ UNCHANGED <<args, shared, files, locks, fetched, enqueued, aux>>

\* url, depth, source = queue.popleft(); executor.submit(...); the inner
\* loop ends when the queue is empty.
Submit ==
    /\ sched = "submit"
    /\ queue # <<>>
    /\ futures' = Append(futures, NewTask(Head(queue)))
    /\ queue' = Tail(queue)
    /\ sched' = IF Tail(queue) = <<>> THEN "collect" ELSE "submit"
    /\ UNCHANGED <<args, shared, files, locks, fetched, enqueued, aux>>

\* for future in as_completed(futures): result = future.result();
\* if result: queue.extend(result).
\* future.result() re-raises what the task raised, which leaves
\* crawl_concurrent.
Collect(t) ==
    /\ sched = "collect"
    /\ futures[t].pc = "done"
    /\ ~futures[t].collected
    /\ IF futures[t].raised
       THEN /\ sched' = "unwind"
            /\ UNCHANGED <<queue, futures>>
       ELSE /\ queue' = queue \o futures[t].result
            /\ futures' = [futures EXCEPT ![t].collected = TRUE]
            /\ sched' = "table"
    /\ UNCHANGED <<args, shared, files, locks, fetched, enqueued, aux>>

\* live.update(build_table()) in the as_completed loop: the main thread reads
\* discovered, visited and stats, acquiring no lock, while the other tasks of
\* the wave run.
UpdateTable ==
    /\ sched = "table"
    /\ stats' = build_table(stats)
    /\ sched' = "collect"
    /\ UNCHANGED <<args, queue, futures, visited, discovered, broken, files, locks,
                   fetched, enqueued, aux>>

\* as_completed is exhausted: `while queue` starts the next wave with
\* futures = {}, or the with blocks end and crawl_concurrent returns.
DrainCheck ==
    /\ sched = "collect"
    /\ \A t \in Tasks : futures[t].collected
    /\ IF queue # <<>>
       THEN /\ futures' = <<>>
            /\ wave' = wave + 1
            /\ sched' = "submit"
       ELSE /\ sched' = "done"
            /\ UNCHANGED <<futures, wave>>
    /\ UNCHANGED <<args, queue, shared, files, locks, fetched, enqueued, norm>>

\* The exception leaves `with ThreadPoolExecutor`, whose exit waits for every
\* submitted task, and then main(): no summary, no export.
Unwind ==
    /\ sched = "unwind"
    /\ \A t \in Tasks : futures[t].pc = "done"
    /\ sched' = "crashed"
    /\ UNCHANGED <<args, queue, futures, shared, files, locks, fetched, enqueued, aux>>

\* Mutant: the final export keeps every broken record.
ExportedAny(rec) == TRUE

\* export_errors_to_csv keeps an int error in (400, 404, 500) and a str error.
Exported(rec) == IF IsInt(rec[2]) THEN rec[2][2] \in {400, 404, 500} ELSE TRUE
FinalRow(rec) ==
    IF IsInt(rec[2]) THEN Row(IntText(rec[2][2]), rec[1], rec[3])
    ELSE Row("ERROR", rec[1], rec[3])
FinalRows(list) ==
    LET kept == SelectSeq(list, Exported)
    IN  [k \in 1..Len(kept) |-> FinalRow(kept[k])]

\* if args.export: export_errors_to_csv(args.export)
FinalExport ==
    /\ sched = "done"
    /\ final_file' = <<Header>> \o FinalRows(broken)
    /\ sched' = "close"
    /\ UNCHANGED <<args, queue, futures, shared, rt_open, rt_buf, rt_disk, locks,
                   fetched, enqueued, aux>>

\* --export was not given
NoExport ==
    /\ sched = "done"
    /\ sched' = "close"
    /\ UNCHANGED <<args, queue, futures, shared, files, locks, fetched, enqueued, aux>>

\* if realtime_export_file: realtime_export_file.close()
Close ==
    /\ sched = "close"
    /\ IF rt_open
       THEN /\ rt_disk' = rt_disk \o rt_buf
            /\ rt_buf' = <<>>
       ELSE UNCHANGED <<rt_disk, rt_buf>>
    /\ sched' = "end"
    /\ UNCHANGED <<args, queue, futures, shared, rt_open, final_file, locks,
                   fetched, enqueued, aux>>

\* ------------------------------------------------------- specifications
\* The value of norm while no call of normalize_url is followed on its own.
NormIdle == [pc |-> "idle"]

ArgSets == [site : DOMAIN Sites, depth : 0..MaxDepthArg, threads : 1..MaxThreadsArg]

Init ==
    /\ args \in ArgSets
    /\ sched = "main"
    /\ queue = <<>>
    /\ futures = <<>>
    /\ visited = {}
    /\ discovered = {}
    /\ broken = <<>>
    /\ stats = <<>>
    /\ lock = {}
    /\ realtime_export_lock = {}
    /\ rt_open = FALSE
    /\ rt_buf = <<>>
    /\ rt_disk = <<>>
    /\ final_file = <<>>
    /\ fetched = <<>>
    /\ enqueued = {}
    /\ wave = 0
    /\ norm = NormIdle

TaskNext ==
    \/ \E t \in Tasks : Start(t)
    \/ \E t \in Tasks : GateCheck(t)
    \/ \E t \in Tasks : GateAdd(t)
    \/ \E t \in Tasks : Fetch(t)
    \/ \E t \in Tasks : Stat(t)
    \/ \E t \in Tasks : Broken(t)
    \/ \E t \in Tasks : Except(t)
    \/ \E t \in Tasks : ExportEnter(t)
    \/ \E t \in Tasks : Write(t)
    \/ \E t \in Tasks : Flush(t)
    \/ \E t \in Tasks : Link(t)

Next ==
    \/ OpenRealtime \/ NoRealtime \/ CrawlInit \/ Submit
    \/ \E t \in Tasks : Collect(t)
    \/ UpdateTable \/ DrainCheck \/ Unwind \/ FinalExport \/ NoExport \/ Close
    \/ TaskNext

Spec == Init /\ [][Next]_vars

\* The crawl with threads that are scheduled: a step that stays possible is
\* eventually taken.
FairSpec == Spec /\ WF_vars(Next)

\* fetch_and_extract called directly and concurrently by GateCallers callers,
\* each with a frontier entry of its own choice (several may name one URL),
\* on shared state as crawl_concurrent sets it up. No scheduler runs.
CallerUrls == {P(<<>>), P(<<"a">>), P(<<"b">>), P(<<"c">>)}
CallerEntries == {<<u, d, Root>> : u \in CallerUrls, d \in 0..1}
CallerArgs == {a \in ArgSets : a.depth = 0 /\ a.threads = MaxThreadsArg}

InitGate ==
    /\ args \in CallerArgs
    /\ sched = "callers"
    /\ queue = <<>>
    /\ futures \in [1..GateCallers -> {NewTask(e) : e \in CallerEntries}]
    /\ visited = {}
    /\ discovered = {base_url}
    /\ broken = <<>>
    /\ stats = build_table(<<>>)
    /\ lock = {}
    /\ realtime_export_lock = {}
    /\ rt_open \in BOOLEAN
    /\ rt_buf = IF rt_open THEN <<Header>> ELSE <<>>
    /\ rt_disk = <<>>
    /\ final_file = <<>>
    /\ fetched = <<>>
    /\ enqueued = {<<base_url, 0, Root>>}
    /\ wave = 0
    /\ norm = NormIdle

SpecGate == InitGate /\ [][TaskNext]_vars

\* normalize_url called on its own, twice in a row: on a link as an href
\* attribute may hold it, then on its own result, with the same base.
None == Str("None")
Tails == UNION {[1..n -> {Slash, Space}] : n \in 0..MaxTail}
NormBases == {BaseArg, P(<<>>), P(<<"a">>)}
\* (scheme, netloc) of the links: "/a", "//example.com/a", "https://...",
\* and "mailto:...".
NormOrigins == {<<"", "">>, <<"", Host>>, <<"https", Host>>, <<"https", "other.com">>,
                <<"mailto", "">>}
NormLinks ==
    {HrefTail(o[1], o[2], p, t, f) :
        o \in NormOrigins, p \in {<<"a">>, <<"a", "b">>}, t \in Tails, f \in {"", "x"}}
    \cup {Href(o[1], o[2], <<>>, k, f) :
            o \in NormOrigins \ {<<"mailto", "">>}, k \in 0..MaxTail, f \in {"", "x"}}
NormArgs == {a \in ArgSets : a.site = 1 /\ a.depth = 0 /\ a.threads = 1}

InitNorm ==
    /\ args \in NormArgs
    /\ sched = "normalize"
    /\ queue = <<>>
    /\ futures = <<>>
    /\ visited = {}
    /\ discovered = {}
    /\ broken = <<>>
    /\ stats = <<>>
    /\ lock = {}
    /\ realtime_export_lock = {}
    /\ rt_open = FALSE
    /\ rt_buf = <<>>
    /\ rt_disk = <<>>
    /\ final_file = <<>>
    /\ fetched = <<>>
    /\ enqueued = {}
    /\ wave = 0
    /\ norm \in [pc : {"call"}, base : NormBases, link : NormLinks,
                  once : {None}, twice : {None}]

\* once = normalize_url(base, link)
NormalizeOnce ==
    /\ norm.pc = "call"
    /\ norm' = [norm EXCEPT !.once = normalize_url(norm.base, norm.link),
                            !.pc = "once"]
    /\ UNCHANGED <<mainvars, futures, shared, files, locks, fetched, enqueued, wave>>

\* twice = normalize_url(base, once)
NormalizeTwice ==
    /\ norm.pc = "once"
    /\ norm' = [norm EXCEPT !.twice = normalize_url(norm.base, norm.once),
                            !.pc = "twice"]
    /\ UNCHANGED <<mainvars, futures, shared, files, locks, fetched, enqueued, wave>>

NextNorm == NormalizeOnce \/ NormalizeTwice

SpecNorm == InitNorm /\ [][NextNorm]_vars

\* ------------------------------------------------------------- properties
\* crawl_concurrent has returned.
CrawlDone == sched \in {"done", "close", "end"}

TasksOf(u) == {t \in Tasks : futures[t].url = u}
TasksAt(pcs) == {t \in Tasks : futures[t].pc \in pcs}

\* The task went through the visit gate: it sits between the test and the
\* return, or it returned after a fetch.
PassedGate(t) ==
    \/ futures[t].pc \in {"gate_add", "fetch", "stat", "except", "broken",
                          "export", "write", "flush", "links"}
    \/ futures[t].pc = "done" /\ futures[t].resp # NoResponse

\* C1: under every interleaving of concurrent fetch_and_extract calls, at
\* most one task per URL passes the visit gate, and no URL is requested more
\* than once.
C1_FetchedAtMostOnce ==
    /\ \A u \in DOMAIN fetched : fetched[u] <= 1
    /\ \A t1, t2 \in Tasks :
         (t1 # t2 /\ futures[t1].url = futures[t2].url)
            => ~(PassedGate(t1) /\ PassedGate(t2))

\* Two callers were given the same URL at a depth within the bound, both
\* returned, and the URL was requested once.
C1_Witness ==
    \E t1, t2 \in Tasks :
        /\ t1 # t2
        /\ futures[t1].url = futures[t2].url
        /\ futures[t1].depth <= args.depth /\ futures[t2].depth <= args.depth
        /\ futures[t1].pc = "done" /\ futures[t2].pc = "done"
        /\ Count(fetched, futures[t1].url) = 1

\* C2: crawl_concurrent eventually reaches Done, and is Done only with an
\* empty queue and every submitted task finished and merged. As a statement
\* about finite runs: a state in which nothing more can happen is one after
\* Done, and Done has the stated shape.
C2_ReachesDone ==
    /\ CrawlDone =>
         /\ queue = <<>>
         /\ \A t \in Tasks : futures[t].pc = "done" /\ futures[t].collected
    /\ (~ENABLED Next) => CrawlDone

\* The pages within k internal links of the base URL, going only through
\* pages that answered with a status below 400.
LinksOf(site, u) ==
    LET r == Response(site, u)
    IN  IF r.exc \/ r.status >= 400 THEN {}
        ELSE {normalize_url(u, r.links[k]) :
                k \in {j \in 1..Len(r.links) : ~UrlsplitRaises(r.links[j])}}
RECURSIVE Within(_, _)
Within(site, k) ==
    IF k = 0 THEN {base_url}
    ELSE LET prev == Within(site, k - 1)
         IN  prev \cup {v \in UNION {LinksOf(site, u) : u \in prev} :
                          ~IsMailOrTel(v) /\ v.netloc = Host}

\* C3: at Done, visited is the set of URLs within max_depth internal links of
\* the base URL through pages with status below 400; on the example site with
\* depth 2 that is {/, /a, /b, /c}, with histogram {200: 3, 404: 1} and
\* broken = [(/b, 404, /)].
C3_VisitedIsReachable ==
    CrawlDone =>
        /\ visited = Within(Site, args.depth)
        /\ (Site = SiteExample /\ args.depth = 2) =>
             /\ visited = {P(<<>>), P(<<"a">>), P(<<"b">>), P(<<"c">>)}
             /\ Count(stats, IntKey(200)) = 3 /\ Count(stats, IntKey(404)) = 1
             /\ \A k \in DOMAIN stats : k \notin {IntKey(200), IntKey(404)} => stats[k] = 0
             /\ broken = << <<P(<<"b">>), IntKey(404), P(<<>>)>> >>

\* The example crawl with depth 2 is Done.
C3_Witness ==
    /\ CrawlDone
    /\ Site = SiteExample /\ args.depth = 2
    /\ Cardinality(visited) = 4

\* C4: at Done, visited is the set of discovered URLs whose frontier entry has
\* depth <= max_depth; deeper entries are discovered and never visited.
C4_VisitedIsDiscoveredWithinDepth ==
    CrawlDone =>
        /\ discovered = {e[1] : e \in enqueued}
        /\ visited = {e[1] : e \in {x \in enqueued : x[2] <= args.depth}}
        /\ \A e \in enqueued : e[2] > args.depth =>
              e[1] \notin visited /\ Count(fetched, e[1]) = 0

\* Done with max_depth 0 on a base page with internal links: the links are
\* discovered, and visited holds the base URL only.
C4_Witness ==
    /\ CrawlDone
    /\ args.depth = 0
    /\ Cardinality(discovered) > 1
    /\ Cardinality(visited) = 1

\* The fetch of u has been answered and the task is past the named steps.
Past(u, pcs) == u \in DOMAIN fetched /\ TasksOf(u) \cap TasksAt(pcs) = {}
Answered(u) == ~Response(Site, u).exc
RecordsOf(u) == {k \in 1..Len(broken) : broken[k][1] = u}
SourceOf(u) == (CHOOSE e \in enqueued : e[1] = u)[3]

\* C5: each response with status s adds exactly one to the histogram entry of
\* s; a status >= 400 appends exactly one record (url, s, source) and the task
\* returns no frontier entry; a status < 400 appends no record.
C5_StatusAccounting ==
    /\ \A k \in {x \in DOMAIN stats : IsInt(x)} :
         stats[k] = Cardinality({u \in DOMAIN fetched :
                        /\ Answered(u) /\ Response(Site, u).status = k[2]
                        /\ Past(u, {"stat"})})
    /\ \A u \in DOMAIN fetched :
         (Answered(u) /\ Past(u, {"stat"})) =>
            /\ Count(stats, IntKey(Response(Site, u).status)) >= 1
            /\ IF Response(Site, u).status >= 400 /\ Past(u, {"stat", "broken"})
               THEN /\ Cardinality(RecordsOf(u)) = 1
                    /\ \A k \in RecordsOf(u) :
                         broken[k] = <<u, IntKey(Response(Site, u).status), SourceOf(u)>>
               ELSE RecordsOf(u) = {}
            /\ Response(Site, u).status >= 400 =>
                 /\ \A t \in TasksOf(u) : futures[t].result = <<>>
                 /\ \A e \in enqueued : e[3] # u

\* A 200 and a 400 page were both fetched and fully processed.
C5_Witness ==
    /\ Count(stats, IntKey(200)) >= 1
    /\ Count(stats, IntKey(400)) = 1
    /\ \E k \in 1..Len(broken) : broken[k][2] = IntKey(400)
    /\ TasksAt({"done"}) = Tasks

\* C6: whatever is raised while a task fetches and processes its URL is
\* caught in the task: no task ends by raising, the scheduler never sees an
\* exception, and each failed fetch gives one record and one count of "error".
C6_ErrorsStayInTask ==
    /\ \A t \in Tasks : ~futures[t].raised
    /\ sched \notin {"unwind", "crashed"}
    /\ Count(stats, StrKey("error")) =
         Cardinality({u \in DOMAIN fetched : ~Answered(u) /\ Past(u, {"except"})})

\* The data row the realtime file is to hold for a broken record.
RowFor(rec) ==
    Row(IF IsInt(rec[2]) THEN IntText(rec[2][2]) ELSE "ERROR", rec[1], rec[3])
RealtimeRows == rt_disk \o rt_buf
IsDataRow(row) == row # Header

\* C7: with realtime export on, whenever no task holds the shared-state lock
\* the rows written are the header followed by one row per entry of the
\* broken list, in the order of the list; the same data rows are in the
\* flushed part of the file, behind the header.
C7_RealtimeMirrorsBroken ==
    (rt_open /\ lock = {}) =>
        LET rows == [k \in 1..Len(broken) |-> RowFor(broken[k])]
        IN  /\ RealtimeRows = <<Header>> \o rows
            /\ SelectSeq(rt_disk, IsDataRow) = rows
            /\ rt_disk # <<>> => Head(rt_disk) = Header

\* Two records, one a status and one a transport error, are in the file.
C7_Witness ==
    /\ rt_open /\ lock = {}
    /\ \E j, k \in 1..Len(broken) : IsInt(broken[j][2]) /\ ~IsInt(broken[k][2])
    /\ Len(RealtimeRows) = 3

\* C8: at most one task at a time is between the start of writing a record
\* and the end of its flush.
C8_WritersSerialized == Cardinality(TasksAt({"write", "flush"})) <= 1

\* One task has written and not flushed while another has a broken link to
\* report.
C8_Witness ==
    \E t1, t2 \in Tasks :
        /\ futures[t1].pc = "flush"
        /\ futures[t2].pc \in {"broken", "except"}

\* Calls of export_row_realtime that have returned: broken.append and the
\* call are one critical section, so the records of the calls still running
\* are the last ones of the list.
ReturnedCalls == Len(broken) - Cardinality(TasksAt({"export", "write", "flush"}))

\* C9: whenever a call of export_row_realtime has returned, the header and
\* every record written by the returned calls are flushed, and at any point
\* the buffer holds nothing but the record being written.
C9_OnlyInFlightRecordBuffered ==
    rt_open =>
        /\ ReturnedCalls >= 1 =>
             rt_disk = <<Header>> \o [k \in 1..ReturnedCalls |-> RowFor(broken[k])]
        /\ \/ rt_buf = <<>>
           \/ /\ TasksAt({"flush"}) # {}
              /\ rt_buf = <<RowFor(broken[Len(broken)])>>

\* What the code does keep of per-record durability: whenever a call of
\* export_row_realtime has returned, the header and every record written by
\* the returned calls are flushed, and at any point at most one data record,
\* the one being written, is in the buffer; until the first flush the header
\* is in the buffer as well.
FlushedOnReturn ==
    rt_open =>
        /\ ReturnedCalls >= 1 =>
             rt_disk = <<Header>> \o [k \in 1..ReturnedCalls |-> RowFor(broken[k])]
        /\ Len(SelectSeq(rt_buf, IsDataRow)) <= Cardinality(TasksAt({"flush"}))
        /\ Len(SelectSeq(rt_buf, IsDataRow)) <= 1
        /\ rt_buf # SelectSeq(rt_buf, IsDataRow) => rt_disk = <<>>

\* The records the final export is to keep, and the rows it is to hold.
KeptInFinal(rec) == IF IsInt(rec[2]) THEN rec[2][2] \in {400, 404, 500} ELSE TRUE
RECURSIVE ExpectedFinalRows(_)
ExpectedFinalRows(list) ==
    IF list = <<>> THEN <<>>
    ELSE (IF KeptInFinal(Head(list)) THEN <<RowFor(Head(list))>> ELSE <<>>)
         \o ExpectedFinalRows(Tail(list))
RECURSIVE IsSubSeq(_, _)
IsSubSeq(a, b) ==
    IF a = <<>> THEN TRUE
    ELSE IF b = <<>> THEN FALSE
    ELSE IF Head(a) = Head(b) THEN IsSubSeq(Tail(a), Tail(b))
    ELSE IsSubSeq(a, Tail(b))

\* C10: the final export holds the header and, in list order, a row for a
\* broken record iff its error is 400, 404, 500 or a transport error (token
\* ERROR); its data rows are a sub-sequence of the realtime export's.
C10_FinalExportFiltered ==
    final_file # <<>> =>
        /\ CrawlDone
        /\ final_file = <<Header>> \o ExpectedFinalRows(broken)
        /\ rt_open => IsSubSeq(Tail(final_file), Tail(RealtimeRows))

\* A final export that kept a 400 and a transport error and left out a 503
\* which the realtime export holds.
C10_Witness ==
    /\ final_file # <<>> /\ rt_open
    /\ Len(final_file) = 3
    /\ Len(RealtimeRows) = 4
    /\ \E k \in 1..Len(broken) : broken[k][2] = IntKey(503)

\* C11: while worker tasks may be running, every thread that is reading or
\* writing visited, discovered, stats or broken holds `lock`: a worker between
\* its visited test and visited.add, and the main thread while build_table
\* reads the sets and the histogram for the progress display.
C11_SharedStateUnderLock ==
    /\ \A t \in TasksAt({"gate_add"}) : t \in lock
    /\ (sched = "table" /\ Running # {}) => MainThread \in lock

\* C12: the number of fetch_and_extract tasks executing at one time never
\* exceeds the concurrency limit (--threads); a work item submitted while the
\* pool is full stays pending.
C12_BoundedConcurrency == Cardinality(Running) <= args.threads

\* The pool is full and a submitted work item waits.
C12_Witness ==
    /\ Cardinality(Running) = args.threads
    /\ TasksAt({"pending"}) # {}

\* The URLs of the frontier: in the queue, in the results of tasks not yet
\* merged, given to submitted tasks, and every entry ever created.
FrontierEntries ==
    {queue[k] : k \in DOMAIN queue}
        \cup UNION {{futures[t].result[k] : k \in DOMAIN futures[t].result} : t \in Tasks}
        \cup {<<futures[t].url, futures[t].depth, futures[t].source>> : t \in Tasks}
        \cup enqueued
FrontierUrls == {e[1] : e \in FrontierEntries}

\* C13: every URL of discovered and of a frontier entry has the netloc of the
\* base URL and is neither a mailto: nor a tel: URL; links to another host,
\* mailto: links and tel: links are never put in discovered nor enqueued.
C13_ScopeFilter ==
    \A u \in discovered \cup FrontierUrls :
        /\ u.netloc = base_url.netloc
        /\ u.netloc = Host
        /\ u.scheme \notin {"mailto", "tel"}

\* A task went through all the links of its page, one of which is a mailto:
\* or tel: link or names another host, and another of which was enqueued.
C13_Witness ==
    \E t \in Tasks :
        /\ futures[t].pc = "done"
        /\ futures[t].i > Len(futures[t].resp.links)
        /\ futures[t].result # <<>>
        /\ \E k \in DOMAIN futures[t].resp.links :
             LET href == normalize_url(futures[t].url, futures[t].resp.links[k])
             IN  IsMailOrTel(href) \/ href.netloc # Host

\* C14: normalize_url is idempotent: for every base and link, also a link
\* that ends in a mix of whitespace and slashes,
\* normalize_url(base, normalize_url(base, link)) = normalize_url(base, link).
C14_NormalizeIdempotent == norm.pc = "twice" => norm.twice = norm.once

\* On links that hold no whitespace the second call changes nothing.
IdempotentWithoutSpace ==
    (norm.pc = "twice" /\ \A k \in DOMAIN norm.link.tail : norm.link.tail[k] # Space)
        => norm.twice = norm.once

\* C15: the scheduler works in strict waves. While it submits, no result of
\* the wave has been merged and the queue holds entries of the wave's depth
\* only; afterwards the queue holds results only, one level deeper; the next
\* wave starts only when every task of the wave is done and merged; so
\* every task of wave k (counted from 0) has depth exactly k.
C15_StrictWaves ==
    /\ [](/\ \A t \in Tasks : futures[t].depth = wave
          /\ sched = "submit" =>
                /\ \A t \in Tasks : ~futures[t].collected
                /\ \A k \in DOMAIN queue : queue[k][2] = wave
          /\ sched # "submit" =>
                \A k \in DOMAIN queue : queue[k][2] = wave + 1)
    /\ [][wave' # wave =>
            /\ wave' = wave + 1
            /\ \A t \in Tasks : futures[t].pc = "done" /\ futures[t].collected]_vars

\* The third wave is under way: one of its tasks is merged, another one is
\* still running.
C15_Witness ==
    /\ wave = 2
    /\ \E t \in Tasks : futures[t].collected
    /\ Running # {}

\* The URLs of a list of frontier entries are pairwise distinct.
DistinctUrls(entries) ==
    \A j, k \in DOMAIN entries : j # k => entries[j][1] # entries[k][1]

\* C16: over the whole run and under every interleaving, each URL is
\* enqueued at most once: no two frontier entries ever created name the same
\* URL, neither from two tasks nor twice from one page, and the only entry
\* for the base URL is the root entry, so a link back to the base URL is
\* never enqueued.
C16_EnqueuedOnce ==
    /\ \A e1, e2 \in enqueued : e1[1] = e2[1] => e1 = e2
    /\ \A t \in Tasks : DistinctUrls(futures[t].result)
    /\ DistinctUrls(queue)
    /\ \A t1, t2 \in Tasks : t1 # t2 => futures[t1].url # futures[t2].url
    /\ \A e \in enqueued : e[1] = base_url => e = <<base_url, 0, Root>>

\* Two tasks of one wave went through pages that link to the same new URL;
\* one of them emitted the entry, the other did not.
C16_Witness ==
    \E t1, t2 \in Tasks :
        /\ t1 # t2
        /\ \A t \in {t1, t2} :
             futures[t].pc = "done" /\ futures[t].i > Len(futures[t].resp.links)
        /\ \E k1 \in DOMAIN futures[t1].resp.links, k2 \in DOMAIN futures[t2].resp.links :
             LET h1 == normalize_url(futures[t1].url, futures[t1].resp.links[k1])
                 h2 == normalize_url(futures[t2].url, futures[t2].resp.links[k2])
             IN  /\ h1 = h2
                 /\ \E k \in DOMAIN futures[t1].result : futures[t1].result[k][1] = h1
                 /\ \A k \in DOMAIN futures[t2].result : futures[t2].result[k][1] # h1

\* C17: in every reachable state visited is a subset of discovered, and
\* neither set ever loses a member.
C17_VisitedWithinDiscovered ==
    /\ [](visited \subseteq discovered)
    /\ [][visited \subseteq visited' /\ discovered \subseteq discovered']_vars

\* Several URLs went through the gate while others are discovered only.
C17_Witness ==
    /\ Cardinality(visited) >= 2
    /\ Cardinality(discovered \ visited) >= 2

\* The page at url was requested and answered with a status below 400, and
\* one of its links normalizes to target.
LinksTo(url, target) ==
    LET r == Response(Site, url)
    IN  /\ Count(fetched, url) > 0
        /\ ~r.exc
        /\ r.status < 400
        /\ \E k \in DOMAIN r.links :
             ~UrlsplitRaises(r.links[k]) /\ normalize_url(url, r.links[k]) = target

\* The entry is the root entry, or its source is a visited page that links to
\* its URL and whose own entry is one level up.
SoundEntry(e) ==
    \/ e = <<base_url, 0, Root>>
    \/ /\ e[3] \in visited
       /\ LinksTo(e[3], e[1])
       /\ \E s \in enqueued : s[1] = e[3] /\ s[2] = e[2] - 1

\* C18: source attribution is sound. Every frontier entry (url, depth,
\* source) is the root entry (base URL, depth 0, source "root") or has as
\* source a visited URL fetched with a status below 400 whose page links to
\* url and whose own entry has depth one less; every broken record (target,
\* error, source) carries the target and source of such an entry.
C18_SourceAttribution ==
    /\ \A e \in FrontierEntries : SoundEntry(e)
    /\ \A k \in DOMAIN broken :
         \E e \in enqueued :
            e[1] = broken[k][1] /\ e[3] = broken[k][3] /\ SoundEntry(e)

\* A page found two levels down is recorded as broken, with the page that
\* links to it as its source.
C18_Witness ==
    \E k \in DOMAIN broken :
        /\ broken[k][3] \notin {Root, base_url}
        /\ LinksTo(broken[k][3], broken[k][1])

\* C19: the `url in visited` branch of the visit gate is never taken in a
\* crawl: a submitted task that has not yet gone through the gate and whose
\* depth is within max_depth does not find its URL in visited, because the
\* submitted entries carry pairwise distinct URLs.
C19_VisitedBranchDead ==
    \A t \in TasksAt({"pending", "gate"}) :
        futures[t].depth <= args.depth => futures[t].url \notin visited

\* A task is at the gate, within the depth bound, for a URL that two pages
\* already visited link to.
C19_Witness ==
    \E t \in TasksAt({"gate"}) :
        /\ futures[t].depth <= args.depth
        /\ Cardinality({u \in visited : LinksTo(u, futures[t].url)}) >= 2

\* The task's next step acquires `lock` / realtime_export_lock.
RequestsLock(t) ==
    \/ futures[t].pc \in {"gate", "stat", "broken", "except"}
    \/ futures[t].pc = "links" /\ LinkNeedsLock(futures[t])
RequestsExportLock(t) == futures[t].pc = "export" /\ rt_open
Requesting(u) == \E t \in TasksOf(u) : RequestsLock(t) \/ RequestsExportLock(t)

\* Every URL a crawl of the model may submit.
AllUrls == UNION {Within(Sites[s], MaxDepthArg + 1) : s \in DOMAIN Sites}

\* C20: the two locks cannot deadlock. realtime_export_lock is held only by
\* a task that holds `lock`; a holder of realtime_export_lock never requests
\* `lock`; a task in requests.get holds neither; while a task is unfinished
\* some task can take a step; and with scheduled threads every task that
\* requests a lock gets past that request.
C20_NoLockDeadlock ==
    /\ [](/\ realtime_export_lock \subseteq lock
          /\ \A t \in realtime_export_lock : ~RequestsLock(t)
          /\ \A t \in TasksAt({"fetch"}) : t \notin lock \cup realtime_export_lock
          /\ TasksAt({"done"}) # Tasks => ENABLED TaskNext)
    /\ \A u \in AllUrls : Requesting(u) ~> ~Requesting(u)

\* A task holds both locks while another task requests `lock`.
C20_Witness ==
    \E t1 \in lock \cap realtime_export_lock :
        \E t2 \in Tasks \ {t1} : RequestsLock(t2)

====
